---- MODULE Spec2Model ----
(***************************************************************************)
(* Model of the autonomous quiz agent (src/agent.py), of the server that   *)
(* runs it in the background (src/main.py) and of the file extractor       *)
(* (src/tools.py).                                                         *)
(*                                                                         *)
(*   Spec       one run of the compiled graph: agent node, route, tool     *)
(*              node, recursion limit (run_agent / app.invoke)             *)
(*   LiveSpec   Spec with the fairness of the graph loop, which executes   *)
(*              the scheduled node until the run has ended                 *)
(*   RouteSpec  the pure function route applied to one message drawn from  *)
(*              a bounded set of message shapes                            *)
(*   LimiterSpec  the rate limiter shared by the reasoning calls of all    *)
(*              runs, with the passing of time                             *)
(*   ServerSpec POST /quiz and the background tasks it schedules           *)
(*   FileSpec   process_file_from_url applied to one url, drawn with what  *)
(*              is behind it from a bounded set                            *)
(*   TasksSpec  the background tasks of accepted requests, each with its   *)
(*              own run of the graph, up to the record in the log          *)
(***************************************************************************)
EXTENDS Integers, Sequences, FiniteSets, TLC

VARIABLES
    messages,   \* state["messages"] of the run (AgentState)
    node,       \* the node the graph has scheduled next
    step,       \* supersteps the graph has executed in this run
    status,     \* RUNNING, TERMINATED (route returned END) or FAILED (app.invoke raised)
    error,      \* the exception app.invoke raised, "" if none
    uuid,       \* source of fresh message ids and tool-call ids
    last,       \* RouteSpec: the message handed to route
    routed,     \* RouteSpec: what route returned for it, "pending" before the call
    available_tokens,   \* rate_limiter.available_tokens, in sixtieths of a token
    last_is_none,       \* rate_limiter.last is None: the limiter was never used
    elapsed,    \* time.monotonic() - rate_limiter.last, counted up to FullAfter
    issued,     \* calls of rate_limiter.acquire() so far
    waiting,    \* calls suspended in the loop of acquire()
    issued_now,     \* calls issued since the clock last advanced
    admitted_now,   \* calls admitted since the clock last advanced
    SECRET,     \* os.getenv("SECRET") of the server process
    TASK_ID,    \* the task counter of main.py
    QUIZ_LOGS,  \* the in-memory log: a list of log entries
    background_tasks,   \* the runs scheduled by POST /quiz and where each stands
    clock,      \* time.time()
    request,    \* the body of the latest POST /quiz
    response,   \* the response to it
    runs,       \* TasksSpec: the graph run of each background task (its own AgentState)
    file,       \* FileSpec: the url handed to process_file_from_url and what is behind it
    file_result \* FileSpec: what process_file_from_url did with it

runVars == <<messages, node, step, status, error, uuid>>
routeVars == <<last, routed>>
limiterVars == <<available_tokens, last_is_none, elapsed, issued, waiting,
                 issued_now, admitted_now>>

serverVars == <<SECRET, TASK_ID, QUIZ_LOGS, background_tasks, clock, request, response>>

taskVars == <<runs>>

fileVars == <<file, file_result>>

vars == <<runVars, routeVars, limiterVars, serverVars, taskVars, fileVars>>

----------------------------------------------------------------------------
(* Bounds of the model *)

\* recursion_limit of app.invoke is 200 (src/agent.py:186); the model runs
\* the same loop under a small limit so that the ceiling is reached.
RecursionLimit == 5

\* most tool calls one assistant message carries
MaxToolCalls == 2

\* longest text, before padding with whitespace, handed to route
MaxStrLen == 3

\* calls of the rate limiter
MaxCalls == 11

\* runs POST /quiz schedules
MaxTasks == 2

\* most pages of a PDF handed to process_file_from_url
MaxPages == 7

\* latest value of time.time()
MaxClock == 2

----------------------------------------------------------------------------
(* Text: a string is a sequence of characters *)

Whitespace == {" ", "\n"}

Alphabet == {"E", "N", "D", "e", ".", "4"}

END_TOKEN == <<"E", "N", "D">>

RECURSIVE lstrip(_)
lstrip(s) ==
    IF s # <<>> /\ Head(s) \in Whitespace THEN lstrip(Tail(s)) ELSE s

RECURSIVE rstrip(_)
rstrip(s) ==
    IF s # <<>> /\ s[Len(s)] \in Whitespace
    THEN rstrip(SubSeq(s, 1, Len(s) - 1))
    ELSE s

strip_left_only(s) == lstrip(s)

\* str.strip()
strip(s) == rstrip(lstrip(s))

----------------------------------------------------------------------------
(* Messages *)

\* content of a message: a str, a list of parts, or None
StrContent(s) == [kind |-> "str", s |-> s, parts |-> <<>>]
ListContent(parts) == [kind |-> "list", s |-> <<>>, parts |-> parts]
NoContent == [kind |-> "none", s |-> <<>>, parts |-> <<>>]

\* a part of a list content: a dict whose "text" is a str, a dict without a
\* str under "text" (.get gives None), or a bare str
TextPart(s) == [kind |-> "dict", text |-> "str", s |-> s]
NoTextPart == [kind |-> "dict", text |-> "none", s |-> <<>>]
StrPart(s) == [kind |-> "str", text |-> "none", s |-> s]

\* shape "obj" is a message object, shape "dict" a plain dict; tool_calls is
\* None for a dict without the key and for an object without the attribute
NoToolCalls == [present |-> FALSE, calls |-> <<>>]
ToolCalls(calls) == [present |-> TRUE, calls |-> calls]

Message(shape, type, id, content, tool_calls, tool_call_id, st) ==
    [shape |-> shape, type |-> type, id |-> id, content |-> content,
     tool_calls |-> tool_calls, tool_call_id |-> tool_call_id, status |-> st]

HumanMessage(id, content) ==
    Message("obj", "human", id, content, NoToolCalls, 0, "")

AIMessage(id, content, calls) ==
    Message("obj", "ai", id, content, ToolCalls(calls), 0, "")

ToolMessage(id, content, tool_call_id, st) ==
    Message("obj", "tool", id, content, NoToolCalls, tool_call_id, st)

ToolCall(id, name) == [id |-> id, name |-> name]

----------------------------------------------------------------------------
(* route (src/agent.py:109-143) *)

\* bool(tool_calls): None and the empty list are falsy
Truthy(tool_calls) == tool_calls.present /\ tool_calls.calls # <<>>

\* the second test of route: content[0].get("text").strip() == "END"; it
\* raises IndexError on an empty list and AttributeError when the first part
\* is a str or has no str under "text"
ListCheck(content) ==
    IF content.parts = <<>> THEN "raise"
    ELSE IF content.parts[1].kind # "dict" \/ content.parts[1].text # "str" THEN "raise"
    ELSE IF strip(content.parts[1].s) = END_TOKEN THEN "__end__"
    ELSE "agent"

route_skips_tools(msgs) ==
    LET m == msgs[Len(msgs)]
        content == m.content
    IN  IF Truthy(m.tool_calls) THEN "agent"
        ELSE IF content.kind = "str" /\ strip(content.s) = END_TOKEN THEN "__end__"
        ELSE IF content.kind = "list" THEN ListCheck(content)
        ELSE "agent"

route_no_priority(msgs) ==
    LET m == msgs[Len(msgs)]
        content == m.content
    IN  IF content.kind = "str" /\ strip(content.s) = END_TOKEN THEN "__end__"
        ELSE IF content.kind = "list" /\ ListCheck(content) # "agent" THEN ListCheck(content)
        ELSE IF Truthy(m.tool_calls) THEN "tools"
        ELSE "agent"

route(msgs) ==
    LET m == msgs[Len(msgs)]
        content == m.content
    IN  IF Truthy(m.tool_calls) THEN "tools"
        ELSE IF content.kind = "str" /\ strip(content.s) = END_TOKEN THEN "__end__"
        ELSE IF content.kind = "list" THEN ListCheck(content)
        ELSE "agent"

----------------------------------------------------------------------------
(* The state of a run and its reducer (src/agent.py:23-32) *)

\* merged_by_id.get(id): the position of the message with this id, 0 for None
IndexOfId(msgs, id) ==
    IF \E i \in 1..Len(msgs) : msgs[i].id = id
    THEN CHOOSE i \in 1..Len(msgs) : msgs[i].id = id
    ELSE 0

add_messages_overwrite(left, right) == right

add_messages_concat(left, right) == left \o right

\* the loop of add_messages from right[k] on: a message whose id is already
\* in merged replaces the message with that id in place, any other message
\* is appended.  The loop variables are bound as m \in {e}, which makes TLC
\* evaluate each of them once.
RECURSIVE merge_from(_, _, _)
merge_from(merged, right, k) ==
    IF k > Len(right) THEN merged
    ELSE CHOOSE result \in
            {merge_from(IF at # 0 THEN [merged EXCEPT ![at] = m] ELSE Append(merged, m),
                        right, k + 1) :
                m \in {right[k]}, at \in {IndexOfId(merged, right[k].id)}} : TRUE

add_messages(left, right) ==
    CHOOSE result \in {merge_from(l, r, 1) : l \in {left}, r \in {right}} : TRUE

----------------------------------------------------------------------------
(* The reasoning step (src/agent.py:92-103) *)

URL == <<"http://example.test/q1">>

\* the tools of TOOLS, in the order in which the calls of one message name them
ToolOrder == <<"get_rendered_html", "post_request", "run_code", "download_file",
               "add_dependencies">>

Names(n) == SubSeq(ToolOrder, 1, n)

\* what llm_with_prompt.invoke can return: text without tool calls, or tool
\* calls next to a text or an empty list of parts
LLMReplies ==
    {[content |-> c, names |-> <<>>] :
        c \in {StrContent(END_TOKEN), StrContent(<<"4">>),
               ListContent(<<TextPart(END_TOKEN)>>), ListContent(<<>>)}}
    \cup
    {[content |-> c, names |-> Names(n)] :
        c \in {StrContent(END_TOKEN), ListContent(<<>>)},
        n \in 1..MaxToolCalls}

\* the AIMessage of a reply; its tool calls get the ids base+1, base+2, ...
Result(reply, id, base) ==
    AIMessage(id, reply.content,
              [i \in 1..Len(reply.names) |-> ToolCall(base + i, reply.names[i])])

\* the update agent_node returns: the whole history and the result
agent_node(msgs, result) == msgs \o <<result>>

----------------------------------------------------------------------------
(* The tool node (src/agent.py:153) *)

ToolOutcomes == {"success", "error"}

ToolNode_reversed(msgs, outcome, base) ==
    LET calls == msgs[Len(msgs)].tool_calls.calls
        n == Len(calls)
    IN  [i \in 1..n |->
            ToolMessage(base + i, StrContent(<<outcome[n + 1 - i]>>),
                        calls[n + 1 - i].id, outcome[n + 1 - i])]

ToolNode_abort_on_error(msgs, outcome, base) ==
    LET calls == msgs[Len(msgs)].tool_calls.calls
        failed == {i \in 1..Len(calls) : outcome[i] = "error"}
        upto == IF failed = {} THEN Len(calls)
                ELSE CHOOSE i \in failed : \A j \in failed : i <= j
    IN  [i \in 1..upto |->
            ToolMessage(base + i, StrContent(<<outcome[i]>>), calls[i].id, outcome[i])]

\* ToolNode: one ToolMessage for each tool call of the last message, in the
\* order of the calls; a tool that failed gives a ToolMessage with status
\* "error" and the error text as content
ToolNode(msgs, outcome, base) ==
    LET calls == msgs[Len(msgs)].tool_calls.calls
    IN  [i \in 1..Len(calls) |->
            ToolMessage(base + i, StrContent(<<outcome[i]>>), calls[i].id, outcome[i])]

----------------------------------------------------------------------------
(* The rate limiter of the reasoning calls (src/agent.py:43-55) *)

\* requests_per_second = 9/60
RefillPerSecond == 9
TokenUnit == 60

max_bucket_size == 9

check_every_n_seconds == 1

\* after this many seconds without a refill the bucket is full whatever it held
FullAfter == (max_bucket_size * TokenUnit) \div RefillPerSecond

Min(a, b) == IF a <= b THEN a ELSE b

_consume_no_cap(tokens, none, dt) ==
    LET since == IF none THEN 0 ELSE dt
        refill == since * RefillPerSecond >= TokenUnit
        filled == IF refill THEN tokens + since * RefillPerSecond ELSE tokens
    IN  [ok |-> filled >= TokenUnit,
         tokens |-> IF filled >= TokenUnit THEN filled - TokenUnit ELSE filled,
         elapsed |-> IF refill THEN 0 ELSE since]

\* InMemoryRateLimiter._consume, under its lock: the first call sets last to
\* now; when a whole token has accrued since last, the accrued tokens are
\* added and last becomes now; the bucket is cut to max_bucket_size; a call
\* is admitted when a whole token is there, and takes it
_consume(tokens, none, dt) ==
    LET since == IF none THEN 0 ELSE dt
        refill == since * RefillPerSecond >= TokenUnit
        filled == Min(IF refill THEN tokens + since * RefillPerSecond ELSE tokens,
                      max_bucket_size * TokenUnit)
    IN  [ok |-> filled >= TokenUnit,
         tokens |-> IF filled >= TokenUnit THEN filled - TokenUnit ELSE filled,
         elapsed |-> IF refill THEN 0 ELSE since]

InitLimiter ==
    /\ available_tokens = 0
    /\ last_is_none = TRUE
    /\ elapsed = 0
    /\ issued = 0 /\ waiting = 0
    /\ issued_now = 0 /\ admitted_now = 0

----------------------------------------------------------------------------
(* The server (src/main.py) *)

None == "<None>"

\* None where a time is expected: time.time() is a number
NoTime == -1

NoRequest == [json |-> "none", url |-> None, secret |-> None]
NoResponse == [status_code |-> 0, detail |-> "", task_id |-> 0]

\* the bodies of the requests: text that is no JSON, JSON that is no object,
\* and objects in which url and secret are absent (None), empty or a text
Bodies ==
    {[json |-> j, url |-> None, secret |-> None] : j \in {"invalid", "array"}}
    \cup
    {[json |-> "object", url |-> u, secret |-> w] :
        u \in {None, "", "http://example.test/q1"},
        w \in {None, "", "s3cret", "wrong"}}

InitServer ==
    /\ TASK_ID = 0
    /\ QUIZ_LOGS = <<>>
    /\ background_tasks = <<>>
    /\ clock = 0
    /\ request = NoRequest
    /\ response = NoResponse

\* bool(x) of what data.get returns
Falsy(x) == x \in {None, ""}

HTTPException(code, detail) == [status_code |-> code, detail |-> detail, task_id |-> 0]

\* what solve answers without touching the log, "accept" when it goes on
solve_validation(data, secret_env) ==
    IF data.json = "invalid" THEN HTTPException(400, "Invalid JSON")
    ELSE IF data.json # "object" THEN HTTPException(500, "Internal Server Error")
    ELSE IF Falsy(data.url) \/ Falsy(data.secret)
        THEN HTTPException(400, "Missing url or secret")
    ELSE IF data.secret # secret_env THEN HTTPException(403, "Invalid secret")
    ELSE [status_code |-> 200, detail |-> "accept", task_id |-> 0]

log_entry_stale_id(id, url, now) ==
    [id |-> id - 1, url |-> url, submitted_at |-> now, completed_at |-> NoTime,
     status |-> "queued", result |-> None]

log_entry(id, url, now) ==
    [id |-> id, url |-> url, submitted_at |-> now, completed_at |-> NoTime,
     status |-> "queued", result |-> None]

\* POST /quiz
solve ==
    /\ Len(background_tasks) < MaxTasks
    /\ \E data \in Bodies :
       \E checked \in {solve_validation(data, SECRET)} :
        /\ request' = data
        /\ IF checked.status_code # 200
           THEN /\ response' = checked
                /\ UNCHANGED <<TASK_ID, QUIZ_LOGS, background_tasks>>
           ELSE /\ TASK_ID' = TASK_ID + 1
                /\ QUIZ_LOGS' = Append(QUIZ_LOGS, log_entry(TASK_ID + 1, data.url, clock))
                /\ background_tasks' =
                        Append(background_tasks,
                               [url |-> data.url, entry |-> Len(QUIZ_LOGS) + 1,
                                pc |-> "run_agent", raised |-> None])
                /\ response' = [status_code |-> 200, detail |-> "ok",
                                task_id |-> TASK_ID + 1]
    /\ UNCHANGED <<SECRET, clock, runVars, routeVars, limiterVars, taskVars, fileVars>>

\* the state of one run of the graph, as a value
Run(msgs, nd, st, sts, err, id) ==
    [messages |-> msgs, node |-> nd, step |-> st, status |-> sts, error |-> err,
     uuid |-> id]

\* run_agent has returned or raised: the state of its run is gone
Returned == Run(<<>>, "__end__", 0, "RETURNED", "", 0)

\* how run_agent(url) can end for task t: it returns None, or it raises what
\* app.invoke raised.  A task whose run is followed step by step in runs ends
\* the way that run has ended; for any other task every way is possible.
run_agent(t) ==
    IF t > Len(runs) THEN {None, "GraphRecursionError", "ProviderError"}
    ELSE IF runs[t].status = "TERMINATED" THEN {None}
    ELSE IF runs[t].status = "FAILED" THEN {runs[t].error}
    ELSE {}

run_agent_with_logging_status_completed(t) ==
    /\ background_tasks[t].pc = "run_agent"
    /\ \E e \in run_agent(t) :
        /\ background_tasks' = [background_tasks EXCEPT ![t].pc = "completed_at",
                                                         ![t].raised = e]
        /\ QUIZ_LOGS' = [QUIZ_LOGS EXCEPT ![background_tasks[t].entry].status = "completed"]
    /\ runs' = IF t > Len(runs) THEN runs ELSE [runs EXCEPT ![t] = Returned]
    /\ UNCHANGED <<SECRET, TASK_ID, clock, request, response, runVars, routeVars,
                   limiterVars, fileVars>>

\* run_agent_with_logging up to its first assignment: run_agent returns
\* None or raises, and the status of the log entry is set
run_agent_with_logging_status(t) ==
    /\ background_tasks[t].pc = "run_agent"
    /\ \E e \in run_agent(t) :
        /\ background_tasks' = [background_tasks EXCEPT ![t].pc = "completed_at",
                                                         ![t].raised = e]
        /\ QUIZ_LOGS' = [QUIZ_LOGS EXCEPT ![background_tasks[t].entry].status =
                            IF e = None THEN "completed" ELSE "failed"]
    /\ runs' = IF t > Len(runs) THEN runs ELSE [runs EXCEPT ![t] = Returned]
    /\ UNCHANGED <<SECRET, TASK_ID, clock, request, response, runVars, routeVars,
                   limiterVars, fileVars>>

run_agent_with_logging_completed_at_first(t) ==
    /\ background_tasks[t].pc = "completed_at"
    /\ background_tasks' = [background_tasks EXCEPT ![t].pc = "result"]
    /\ QUIZ_LOGS' = [QUIZ_LOGS EXCEPT ![1].completed_at = clock]
    /\ UNCHANGED <<SECRET, TASK_ID, clock, request, response, runVars, routeVars,
                   limiterVars, taskVars, fileVars>>

\* log_entry["completed_at"] = time.time()
run_agent_with_logging_completed_at(t) ==
    /\ background_tasks[t].pc = "completed_at"
    /\ background_tasks' = [background_tasks EXCEPT ![t].pc = "result"]
    /\ QUIZ_LOGS' = [QUIZ_LOGS EXCEPT ![background_tasks[t].entry].completed_at = clock]
    /\ UNCHANGED <<SECRET, TASK_ID, clock, request, response, runVars, routeVars,
                   limiterVars, taskVars, fileVars>>

\* log_entry["result"] = result, or str(e)
run_agent_with_logging_result(t) ==
    /\ background_tasks[t].pc = "result"
    /\ background_tasks' = [background_tasks EXCEPT ![t].pc = "done"]
    /\ QUIZ_LOGS' = [QUIZ_LOGS EXCEPT ![background_tasks[t].entry].result =
                        background_tasks[t].raised]
    /\ UNCHANGED <<SECRET, TASK_ID, clock, request, response, runVars, routeVars,
                   limiterVars, taskVars, fileVars>>

ClockTick ==
    /\ clock < MaxClock
    /\ clock' = clock + 1
    /\ UNCHANGED <<SECRET, TASK_ID, QUIZ_LOGS, background_tasks, request, response,
                   runVars, routeVars, limiterVars, taskVars, fileVars>>

----------------------------------------------------------------------------
(* The file extractor (src/tools.py:6-31) *)

\* if i > 5: break
LastPageIndex == 5

\* text[:4000]
MaxChars == 4000

\* df.head(20)
HeadRows == 20

\* file_url.endswith(suffix)
endswith(s, suffix) ==
    /\ Len(s) >= Len(suffix)
    /\ SubSeq(s, Len(s) - Len(suffix) + 1, Len(s)) = suffix

DotPdf == <<".", "p", "d", "f">>
DotCsv == <<".", "c", "s", "v">>

\* the urls: a .pdf and a .csv name, another extension, the extension in
\* capitals, the extension followed by a query, and a name without the dot
FileUrls ==
    {<<"a">> \o DotPdf, <<"a">> \o DotCsv, <<"a", ".", "t", "x", "t">>,
     <<"a", ".", "P", "D", "F">>, <<"a">> \o DotPdf \o <<"?", "x">>, <<"p", "d", "f">>}

\* a page of a PDF: the number of characters extract_text() returns, or
\* extract_text() raises
Page(raises, chars) == [raises |-> raises, chars |-> chars]

PageKinds == {Page(FALSE, 900), Page(FALSE, 2500), Page(TRUE, 0)}

RECURSIVE PageLists(_)
PageLists(n) ==
    IF n = 0 THEN {<<>>}
    ELSE LET shorter == PageLists(n - 1)
         IN  shorter \cup {Append(q, pg) : q \in {l \in shorter : Len(l) = n - 1},
                                           pg \in PageKinds}

\* what the downloaded bytes are: a PDF with its pages, a CSV with its data
\* rows, or neither
Pdf(pages) == [kind |-> "pdf", pages |-> pages, rows |-> 0]
Csv(rows) == [kind |-> "csv", pages |-> <<>>, rows |-> rows]
Garbage == [kind |-> "other", pages |-> <<>>, rows |-> 0]

FileContents(n) ==
    {Pdf(pages) : pages \in PageLists(n)}
    \cup {Csv(rows) : rows \in {0, HeadRows, HeadRows + 1}}
    \cup {Garbage}

\* client.get(file_url) returns a response or raises
Files(n) ==
    {[url |-> u, get |-> g, content |-> c] :
        u \in FileUrls, g \in {"ok", "raise"}, c \in FileContents(n)}

\* text is kept as its pieces: the characters each page contributed
Piece(page, chars) == [page |-> page, chars |-> chars]

RECURSIVE Length(_)
Length(text) ==
    IF text = <<>> THEN 0 ELSE text[1].chars + Length(Tail(text))

Slice_whole(text, n) == text

\* text[:n]
RECURSIVE Slice(_, _)
Slice(text, n) ==
    IF text = <<>> \/ n = 0 THEN <<>>
    ELSE IF text[1].chars >= n THEN <<Piece(text[1].page, n)>>
    ELSE <<text[1]>> \o Slice(Tail(text), n - text[1].chars)

\* the loop over enumerate(pdf_reader.pages) from index i on: text so far,
\* the pages extract_text() was called on, and whether it raised
RECURSIVE extract_pages(_, _, _, _)
extract_pages(pages, i, text, read) ==
    IF i >= Len(pages) \/ i > LastPageIndex
        THEN [raised |-> FALSE, text |-> text, read |-> read]
    ELSE IF pages[i + 1].raises
        THEN [raised |-> TRUE, text |-> text, read |-> read \cup {i + 1}]
    ELSE extract_pages(pages, i + 1,
                       Append(text, Piece(i + 1, pages[i + 1].chars)),
                       read \cup {i + 1})

\* how process_file_from_url ends: the kind of string it returns ("pdf",
\* "csv", "unsupported", "error") or "raise"; the extracted text or the
\* number of rows in it; the pages that were read
Outcome(kind, text, rows, read) ==
    [kind |-> kind, text |-> text, rows |-> rows, read |-> read]

NoFile == [url |-> <<>>, get |-> "none", content |-> Garbage]
NoOutcome == Outcome("pending", <<>>, 0, {})

\* the body of the try block (src/tools.py:10-29)
try_block(f) ==
    IF f.get = "raise" THEN Outcome("raise", <<>>, 0, {})
    ELSE IF endswith(f.url, DotPdf)
        THEN IF f.content.kind # "pdf" THEN Outcome("raise", <<>>, 0, {})
             ELSE LET r == extract_pages(f.content.pages, 0, <<>>, {})
                  IN  IF r.raised THEN Outcome("raise", <<>>, 0, r.read)
                      ELSE Outcome("pdf", Slice(r.text, MaxChars), 0, r.read)
    ELSE IF endswith(f.url, DotCsv)
        THEN IF f.content.kind # "csv" THEN Outcome("raise", <<>>, 0, {})
             ELSE Outcome("csv", <<>>, Min(f.content.rows, HeadRows), {})
    ELSE Outcome("unsupported", <<>>, 0, {})

process_file_from_url_uncaught(f) == try_block(f)

\* except Exception as e: return f"Error downloading/processing file: ..."
process_file_from_url(f) ==
    LET r == try_block(f)
    IN  IF r.kind = "raise" THEN [r EXCEPT !.kind = "error"] ELSE r

InitFile ==
    /\ file = NoFile
    /\ file_result = NoOutcome

\* no background task has been scheduled
InitTasks == runs = <<>>

----------------------------------------------------------------------------
(* One run of the graph (src/agent.py:146-189) *)

InitRoute ==
    /\ last = HumanMessage(1, StrContent(URL))
    /\ routed = "pending"

InitRun ==
    /\ messages = add_messages(<<>>, <<HumanMessage(1, StrContent(URL))>>)
    /\ node = "agent"
    /\ step = 0
    /\ status = "RUNNING"
    /\ error = ""
    /\ uuid = 1

InitEnv == InitServer /\ SECRET = "s3cret"

Init == InitRun /\ InitRoute /\ InitLimiter /\ InitEnv /\ InitTasks /\ InitFile

\* the agent node and its conditional edge, one superstep
AgentNode ==
    /\ status = "RUNNING" /\ node = "agent" /\ step < RecursionLimit
    /\ \E reply \in LLMReplies :
       \E new \in {add_messages(messages,
                        agent_node(messages, Result(reply, uuid + 1, uuid + 1)))} :
       \E to \in {route(new)} :
            /\ uuid' = uuid + 1 + Len(reply.names)
            /\ step' = step + 1
            /\ IF to = "raise"
               THEN /\ status' = "FAILED"
                    /\ error' = "RouteError"
                    /\ UNCHANGED <<messages, node>>
               ELSE /\ messages' = new
                    /\ node' = to
                    /\ status' = IF to = "__end__" THEN "TERMINATED" ELSE "RUNNING"
                    /\ error' = ""
    /\ UNCHANGED <<routeVars, limiterVars, serverVars, taskVars, fileVars>>

\* llm_with_prompt.invoke raises: the exception leaves app.invoke
ProviderError ==
    /\ status = "RUNNING" /\ node = "agent" /\ step < RecursionLimit
    /\ status' = "FAILED"
    /\ error' = "ProviderError"
    /\ step' = step + 1
    /\ UNCHANGED <<messages, node, uuid>>
    /\ UNCHANGED <<routeVars, limiterVars, serverVars, taskVars, fileVars>>

ToolsNode_uncounted ==
    /\ status = "RUNNING" /\ node = "tools" /\ step < RecursionLimit
    /\ \E n \in {Len(messages[Len(messages)].tool_calls.calls)} :
       \E outcome \in [1..n -> ToolOutcomes] :
            /\ messages' = add_messages(messages, ToolNode(messages, outcome, uuid))
            /\ uuid' = uuid + n
    /\ node' = "agent"
    /\ UNCHANGED <<status, error, step>>
    /\ UNCHANGED <<routeVars, limiterVars, serverVars, taskVars, fileVars>>

\* the tool node and its edge back to the agent, one superstep
ToolsNode ==
    /\ status = "RUNNING" /\ node = "tools" /\ step < RecursionLimit
    /\ \E n \in {Len(messages[Len(messages)].tool_calls.calls)} :
       \E outcome \in [1..n -> ToolOutcomes] :
            /\ messages' = add_messages(messages, ToolNode(messages, outcome, uuid))
            /\ uuid' = uuid + n
    /\ node' = "agent"
    /\ step' = step + 1
    /\ UNCHANGED <<status, error>>
    /\ UNCHANGED <<routeVars, limiterVars, serverVars, taskVars, fileVars>>

GraphRecursionError_never == FALSE /\ UNCHANGED vars

\* the graph has run recursion_limit supersteps and a node is still scheduled
GraphRecursionError ==
    /\ status = "RUNNING" /\ step >= RecursionLimit
    /\ status' = "FAILED"
    /\ error' = "GraphRecursionError"
    /\ UNCHANGED <<messages, node, step, uuid>>
    /\ UNCHANGED <<routeVars, limiterVars, serverVars, taskVars, fileVars>>

Next == AgentNode \/ ProviderError \/ ToolsNode \/ GraphRecursionError

Spec == Init /\ [][Next]_vars

\* app.invoke runs the scheduled node, or raises, until the run has ended
LiveSpec == Spec /\ WF_vars(Next)

----------------------------------------------------------------------------
(* route applied to one message *)

Pads == {<<>>, <<" ">>, <<"\n", " ">>}

RECURSIVE Cores(_)
Cores(n) ==
    IF n = 0 THEN {<<>>}
    ELSE LET shorter == Cores(n - 1)
         IN  shorter \cup {Append(q, c) : q \in {p \in shorter : Len(p) = n - 1},
                                          c \in Alphabet}

\* texts of at most n characters between two runs of whitespace
Texts(n) == {l \o c \o r : l \in Pads, c \in Cores(n), r \in Pads}

FirstParts(n) ==
    {TextPart(t) : t \in Texts(n - 1)} \cup {NoTextPart, StrPart(END_TOKEN)}

LaterParts == {<<>>, <<TextPart(END_TOKEN)>>, <<NoTextPart>>}

Contents(n) ==
    {StrContent(t) : t \in Texts(n)}
    \cup {ListContent(<<p>> \o q) : p \in FirstParts(n), q \in LaterParts}
    \cup {ListContent(<<>>), NoContent}

ToolCallLists ==
    {NoToolCalls, ToolCalls(<<>>), ToolCalls(<<ToolCall(1, "run_code")>>),
     ToolCalls(<<ToolCall(1, "get_rendered_html"), ToolCall(2, "post_request")>>)}

RouteInputs(n) ==
    {Message(shape, "ai", 1, c, tc, 0, "") :
        shape \in {"obj", "dict"}, c \in Contents(n), tc \in ToolCallLists}

InitRouteSpec ==
    /\ InitRun /\ InitLimiter /\ InitEnv /\ InitTasks /\ InitFile
    /\ last \in RouteInputs(MaxStrLen)
    /\ routed = "pending"

RouteCall ==
    /\ routed = "pending"
    /\ routed' = route(<<last>>)
    /\ UNCHANGED <<last, runVars, limiterVars, serverVars, taskVars, fileVars>>

NextRoute == RouteCall

RouteSpec == InitRouteSpec /\ [][NextRoute]_vars

----------------------------------------------------------------------------
(* The reasoning calls of all runs on the shared rate limiter *)

\* a reasoning call enters rate_limiter.acquire(): its first _consume()
\* admits it, or it is suspended
Acquire ==
    /\ issued < MaxCalls
    /\ \E r \in {_consume(available_tokens, last_is_none, elapsed)} :
        /\ available_tokens' = r.tokens
        /\ elapsed' = r.elapsed
        /\ waiting' = IF r.ok THEN waiting ELSE waiting + 1
        /\ admitted_now' = IF r.ok THEN admitted_now + 1 ELSE admitted_now
    /\ last_is_none' = FALSE
    /\ issued' = issued + 1
    /\ issued_now' = issued_now + 1
    /\ UNCHANGED <<runVars, routeVars, serverVars, taskVars, fileVars>>

\* a suspended call wakes from its sleep of check_every_n_seconds and runs
\* _consume() again
Poll ==
    /\ waiting > 0
    /\ \E r \in {_consume(available_tokens, last_is_none, elapsed)} :
        /\ available_tokens' = r.tokens
        /\ elapsed' = r.elapsed
        /\ waiting' = IF r.ok THEN waiting - 1 ELSE waiting
        /\ admitted_now' = IF r.ok THEN admitted_now + 1 ELSE admitted_now
    /\ UNCHANGED <<last_is_none, issued, issued_now, runVars, routeVars, serverVars, taskVars, fileVars>>

\* the clock advances by check_every_n_seconds
Tick ==
    /\ elapsed' = IF last_is_none THEN elapsed
                  ELSE Min(elapsed + check_every_n_seconds, FullAfter)
    /\ issued_now' = 0
    /\ admitted_now' = 0
    /\ UNCHANGED <<available_tokens, last_is_none, issued, waiting, runVars, routeVars,
                   serverVars, taskVars, fileVars>>

NextLimiter == Acquire \/ Poll \/ Tick

\* time passes, and a suspended call polls once every check_every_n_seconds
LimiterSpec ==
    /\ Init /\ [][NextLimiter]_vars
    /\ WF_vars(Tick) /\ WF_vars(Poll)

----------------------------------------------------------------------------
(* POST /quiz and its background tasks *)

InitServerSpec ==
    /\ InitRun /\ InitRoute /\ InitLimiter /\ InitServer /\ InitTasks /\ InitFile
    /\ SECRET \in {None, "s3cret"}

NextServer ==
    \/ solve
    \/ \E t \in 1..Len(background_tasks) : run_agent_with_logging_status(t)
    \/ \E t \in 1..Len(background_tasks) : run_agent_with_logging_completed_at(t)
    \/ \E t \in 1..Len(background_tasks) : run_agent_with_logging_result(t)
    \/ ClockTick

ServerSpec == InitServerSpec /\ [][NextServer]_vars

----------------------------------------------------------------------------
(* process_file_from_url applied to one url *)

InitFileSpec ==
    /\ InitRun /\ InitRoute /\ InitLimiter /\ InitEnv /\ InitTasks
    /\ file \in Files(MaxPages)
    /\ file_result = NoOutcome

ProcessFile ==
    /\ file_result = NoOutcome
    /\ file_result' = process_file_from_url(file)
    /\ UNCHANGED <<file, runVars, routeVars, limiterVars, serverVars, taskVars>>

NextFile == ProcessFile

FileSpec == InitFileSpec /\ [][NextFile]_vars

----------------------------------------------------------------------------
(* The background tasks, each with its own run of the graph *)

TaskUrls == {"http://example.test/q1", "http://example.test/q2"}

\* what the model replies in the runs of the tasks: the text END, alone or
\* next to one tool call
TaskReplies ==
    {reply \in LLMReplies : reply.content = StrContent(END_TOKEN) /\ Len(reply.names) <= 1}

\* the tools called in the runs of the tasks succeed
TaskOutcomes == {"success"}

\* app.invoke({"messages": [{"role": "user", "content": url}]}) before its
\* first superstep
StartRun(url) ==
    Run(add_messages(<<>>, <<HumanMessage(1, StrContent(<<url>>))>>),
        "agent", 0, "RUNNING", "", 1)

\* POST /quiz has accepted n requests, and the worker threads have called
\* run_agent for each of them
InitTasksSpec ==
    /\ InitRun /\ InitRoute /\ InitLimiter /\ InitFile
    /\ SECRET = "s3cret"
    /\ clock = 0
    /\ \E n \in 1..MaxTasks : \E urls \in [1..n -> TaskUrls] :
        /\ TASK_ID = n
        /\ QUIZ_LOGS = [i \in 1..n |-> log_entry(i, urls[i], 0)]
        /\ background_tasks =
                [i \in 1..n |-> [url |-> urls[i], entry |-> i, pc |-> "run_agent",
                                 raised |-> None]]
        /\ runs = [i \in 1..n |-> StartRun(urls[i])]
        /\ request = [json |-> "object", url |-> urls[n], secret |-> "s3cret"]
        /\ response = [status_code |-> 200, detail |-> "ok", task_id |-> n]

\* AgentNode in the run of task t
AgentNodeOf(t) ==
    /\ \E r \in {runs[t]} :
        /\ r.status = "RUNNING" /\ r.node = "agent" /\ r.step < RecursionLimit
        /\ \E reply \in TaskReplies :
           \E new \in {add_messages(r.messages,
                            agent_node(r.messages, Result(reply, r.uuid + 1, r.uuid + 1)))} :
           \E to \in {route(new)} :
                runs' = [runs EXCEPT ![t] =
                    IF to = "raise"
                    THEN Run(r.messages, r.node, r.step + 1, "FAILED", "RouteError",
                             r.uuid + 1 + Len(reply.names))
                    ELSE Run(new, to, r.step + 1,
                             IF to = "__end__" THEN "TERMINATED" ELSE "RUNNING", "",
                             r.uuid + 1 + Len(reply.names))]
    /\ UNCHANGED <<runVars, routeVars, limiterVars, serverVars, fileVars>>

\* ProviderError in the run of task t
ProviderErrorOf(t) ==
    /\ \E r \in {runs[t]} :
        /\ r.status = "RUNNING" /\ r.node = "agent" /\ r.step < RecursionLimit
        /\ runs' = [runs EXCEPT ![t] =
                        Run(r.messages, r.node, r.step + 1, "FAILED", "ProviderError", r.uuid)]
    /\ UNCHANGED <<runVars, routeVars, limiterVars, serverVars, fileVars>>

\* ToolsNode in the run of task t
ToolsNodeOf(t) ==
    /\ \E r \in {runs[t]} :
        /\ r.status = "RUNNING" /\ r.node = "tools" /\ r.step < RecursionLimit
        /\ \E n \in {Len(r.messages[Len(r.messages)].tool_calls.calls)} :
           \E outcome \in [1..n -> TaskOutcomes] :
           \E new \in {add_messages(r.messages, ToolNode(r.messages, outcome, r.uuid))} :
                runs' = [runs EXCEPT ![t] =
                            Run(new, "agent", r.step + 1, r.status, r.error, r.uuid + n)]
    /\ UNCHANGED <<runVars, routeVars, limiterVars, serverVars, fileVars>>

\* GraphRecursionError in the run of task t
GraphRecursionErrorOf(t) ==
    /\ \E r \in {runs[t]} :
        /\ r.status = "RUNNING" /\ r.step >= RecursionLimit
        /\ runs' = [runs EXCEPT ![t] =
                        Run(r.messages, r.node, r.step, "FAILED", "GraphRecursionError",
                            r.uuid)]
    /\ UNCHANGED <<runVars, routeVars, limiterVars, serverVars, fileVars>>

NextTasks ==
    \/ \E t \in 1..Len(runs) : AgentNodeOf(t)
    \/ \E t \in 1..Len(runs) : ProviderErrorOf(t)
    \/ \E t \in 1..Len(runs) : ToolsNodeOf(t)
    \/ \E t \in 1..Len(runs) : GraphRecursionErrorOf(t)
    \/ \E t \in 1..Len(runs) : run_agent_with_logging_status(t)
    \/ \E t \in 1..Len(runs) : run_agent_with_logging_completed_at(t)
    \/ \E t \in 1..Len(runs) : run_agent_with_logging_result(t)

\* each worker thread runs its task to the end
TasksSpec == InitTasksSpec /\ [][NextTasks]_vars /\ WF_vars(NextTasks)

----------------------------------------------------------------------------
(* Vocabulary of the properties *)

Last(msgs) == msgs[Len(msgs)]

IsPrefix(a, b) == Len(a) <= Len(b) /\ SubSeq(b, 1, Len(a)) = a

\* the ids of the tool calls the assistant messages of msgs carry
CallIds(msgs) ==
    UNION {{msgs[i].tool_calls.calls[j].id : j \in 1..Len(msgs[i].tool_calls.calls)} :
            i \in 1..Len(msgs)}

\* the positions of the tool results that answer the call id
Answers(msgs, id) ==
    {i \in 1..Len(msgs) : msgs[i].type = "tool" /\ msgs[i].tool_call_id = id}

\* s is the token between two runs of whitespace
TrimsTo(s, token) ==
    \E i \in 0..Len(s) :
        /\ i + Len(token) <= Len(s)
        /\ \A k \in 1..i : s[k] \in Whitespace
        /\ SubSeq(s, i + 1, i + Len(token)) = token
        /\ \A k \in (i + Len(token) + 1)..Len(s) : s[k] \in Whitespace

\* the text of a message can be extracted: its content is a str, or a list
\* whose first part is a dict with a str under "text"
Extractable(m) ==
    \/ m.content.kind = "str"
    \/ /\ m.content.kind = "list"
       /\ m.content.parts # <<>>
       /\ m.content.parts[1].kind = "dict"
       /\ m.content.parts[1].text = "str"

TextOf(m) == IF m.content.kind = "str" THEN m.content.s ELSE m.content.parts[1].s

\* the step from the current state is the tool node's superstep
ToolsStep == node = "tools" /\ step' = step + 1

\* the tool calls the tool node is about to execute
Pending == Last(messages).tool_calls.calls

----------------------------------------------------------------------------
(* C1: a message that carries tool calls is routed to the tool node         *)
(* whatever its text is, also when the text is "END"; a run never           *)
(* terminates while a tool call of its history has no result.               *)
C1_ToolCallsFirst ==
    /\ (status = "RUNNING" /\ Last(messages).type = "ai" /\ Pending # <<>>)
            => node = "tools"
    /\ status = "TERMINATED"
            => /\ Pending = <<>>
               /\ \A id \in CallIds(messages) : Answers(messages, id) # {}

C1_Witness ==
    /\ status = "RUNNING" /\ node = "tools"
    /\ Last(messages).content = StrContent(END_TOKEN)
    /\ Len(Pending) = 2

(* C2: for a message without tool calls route returns END exactly when the  *)
(* text of the message, trimmed of surrounding whitespace, is the literal   *)
(* "END" in this case; every other text goes back to the agent.             *)
C2_EndIffTrimmedEND ==
    (routed # "pending" /\ ~Truthy(last.tool_calls)) =>
        /\ routed = "__end__" <=> (Extractable(last) /\ TrimsTo(TextOf(last), END_TOKEN))
        /\ (Extractable(last) /\ ~TrimsTo(TextOf(last), END_TOKEN)) => routed = "agent"

C2_Witness ==
    /\ routed = "__end__"
    /\ ~Truthy(last.tool_calls)
    /\ last.content = StrContent(<<" ", "E", "N", "D", "\n", " ">>)

C2_WitnessLowerCase ==
    /\ routed = "agent"
    /\ last.content = StrContent(<<"e", "N", "D">>)

(* C3: when the message has no tool calls and its text cannot be extracted, *)
(* route treats the text as empty and returns "agent"; it never raises.     *)
C3_Original ==
    (routed # "pending" /\ ~Truthy(last.tool_calls) /\ ~Extractable(last))
        => routed = "agent"

(* C4: every run ends, TERMINATED or FAILED; a run that is still running    *)
(* when recursion_limit supersteps are done fails with GraphRecursionError, *)
(* and no run executes more supersteps than the limit.                      *)
C4_EveryRunStops ==
    /\ <>(status \in {"TERMINATED", "FAILED"})
    /\ [](step <= RecursionLimit)
    /\ [](status \in {"RUNNING", "TERMINATED", "FAILED"})
    /\ [](status = "RUNNING" /\ step = RecursionLimit
            => <>(status = "FAILED" /\ error = "GraphRecursionError"))

C4_Witness ==
    /\ status = "FAILED" /\ error = "GraphRecursionError"
    /\ step = RecursionLimit
    /\ \A i \in 1..Len(messages) :
          messages[i].type = "ai" /\ messages[i].tool_calls.calls = <<>>
              => ~TrimsTo(TextOf(messages[i]), END_TOKEN)

(* C5: the history is append-only: the history before a step of the loop    *)
(* is a prefix of the history after it.                                     *)
C5_AppendOnly == [][IsPrefix(messages, messages')]_vars

C5_Witness ==
    /\ Len(messages) >= 5
    /\ \E i \in 1..Len(messages) : messages[i].type = "tool"
    /\ Last(messages).type = "ai"

(* C6: when the reasoning step returns a message with one render-page tool  *)
(* call, then the text "4", then the text "END", the run is TERMINATED with *)
(* the five messages user, assistant with tool call, tool result,           *)
(* assistant "4", assistant "END".                                          *)
Replies == SelectSeq(messages, LAMBDA m : m.type = "ai")

Scenario ==
    /\ messages[1] = HumanMessage(1, StrContent(URL))
    /\ Len(Replies) = 3
    /\ Len(Replies[1].tool_calls.calls) = 1
    /\ Replies[1].tool_calls.calls[1].name = "get_rendered_html"
    /\ Replies[2].content = StrContent(<<"4">>) /\ Replies[2].tool_calls.calls = <<>>
    /\ Replies[3].content = StrContent(END_TOKEN) /\ Replies[3].tool_calls.calls = <<>>

C6_Scenario ==
    Scenario =>
        /\ status = "TERMINATED"
        /\ Len(messages) = 5
        /\ [i \in 1..5 |-> messages[i].type] = <<"human", "ai", "tool", "ai", "ai">>
        /\ messages[2] = Replies[1] /\ messages[4] = Replies[2] /\ messages[5] = Replies[3]
        /\ messages[3].tool_call_id = messages[2].tool_calls.calls[1].id

C6_Witness == Scenario /\ status = "TERMINATED" /\ Len(messages) = 5

(* C7 as stated: when the run has ended, every tool call id of the history  *)
(* has exactly one tool result.                                             *)
C7_Original ==
    status # "RUNNING" =>
        \A id \in CallIds(messages) : Cardinality(Answers(messages, id)) = 1

(* C7: the tool node appends exactly one tool result for each tool call of  *)
(* the latest assistant message, in the order of the calls; no call id ever *)
(* has two results, and every call id has exactly one except the calls of   *)
(* the latest message while the tool node is still scheduled.               *)
C7_OneResultPerCall ==
    /\ [][ToolsStep =>
            /\ Len(messages') = Len(messages) + Len(Pending)
            /\ IsPrefix(messages, messages')
            /\ \A i \in 1..Len(Pending) :
                  /\ messages'[Len(messages) + i].type = "tool"
                  /\ messages'[Len(messages) + i].tool_call_id = Pending[i].id]_vars
    /\ [](\A id \in CallIds(messages) :
            Cardinality(Answers(messages, id)) =
                IF node = "tools" /\ \E j \in 1..Len(Pending) : Pending[j].id = id
                THEN 0 ELSE 1)

C7_Witness ==
    \E i \in 1..Len(messages) :
        /\ Len(messages[i].tool_calls.calls) = 2
        /\ i + 2 <= Len(messages)
        /\ messages[i + 1].tool_call_id = messages[i].tool_calls.calls[1].id
        /\ messages[i + 2].tool_call_id = messages[i].tool_calls.calls[2].id
        /\ status = "TERMINATED"

C9_Original ==
    (issued >= 1 /\ issued_now = issued /\ issued <= max_bucket_size) => waiting = 0

(* C9: the bucket starts empty and holds between 0 and 9 tokens; a call is  *)
(* admitted only by taking a whole token, so at most 9 calls are admitted   *)
(* at one instant and a call is suspended only when no whole token is left; *)
(* the first call on a fresh limiter is suspended; a suspended call leaves  *)
(* the loop only by being admitted, and it is admitted eventually.          *)
C9_TokenBucket ==
    /\ [](available_tokens >= 0 /\ available_tokens <= max_bucket_size * TokenUnit)
    /\ [](admitted_now <= max_bucket_size)
    /\ [](last_is_none => available_tokens = 0 /\ issued = 0)
    /\ [][waiting' > waiting => available_tokens' < TokenUnit]_vars
    /\ [][(last_is_none /\ issued' = issued + 1) => waiting' = waiting + 1]_vars
    /\ [][waiting' < waiting =>
            waiting' = waiting - 1 /\ admitted_now' = admitted_now + 1]_vars
    /\ [](waiting > 0 => <>(waiting = 0))

C9_Witness ==
    /\ issued_now = max_bucket_size + 1
    /\ admitted_now = max_bucket_size
    /\ waiting = 1

(* C10: POST /quiz answers 200 with a task id exactly when the body has a   *)
(* url and the configured secret; a wrong secret is answered 403, a missing *)
(* url or secret 400; a rejected request leaves the counter, the log and    *)
(* the scheduled runs as they were.                                         *)
Accepted(data) ==
    data.json = "object" /\ ~Falsy(data.url) /\ ~Falsy(data.secret) /\ data.secret = SECRET

C10_Original ==
    response # NoResponse =>
        /\ response.status_code = 200 <=> Accepted(request)
        /\ response.status_code = 200 => response.task_id = TASK_ID
        /\ (request.json = "object" /\ ~Falsy(request.url) /\ ~Falsy(request.secret)
                /\ request.secret # SECRET) => response.status_code = 403
        /\ (request.json # "object" \/ Falsy(request.url) \/ Falsy(request.secret))
                => response.status_code = 400

\* the characters the pages hold together
RECURSIVE Chars(_)
Chars(pages) == IF pages = <<>> THEN 0 ELSE pages[1].chars + Chars(Tail(pages))

IsPdfUrl == endswith(file.url, DotPdf)
IsCsvUrl == endswith(file.url, DotCsv)

\* extract_text() raises on one of the first six pages
PageFails ==
    \E k \in 1..Len(file.content.pages) : k <= 6 /\ file.content.pages[k].raises

C14_Original ==
    file_result.kind # "pending" =>
        /\ file_result.kind # "raise"
        /\ (~IsPdfUrl /\ ~IsCsvUrl) => file_result.kind = "unsupported"

(* C14: process_file_from_url never raises: a failed download, a PDF that   *)
(* cannot be opened or read and a CSV that cannot be parsed are returned as *)
(* the error string, and nothing else is; the download comes first, so a    *)
(* url that ends neither in .pdf nor in .csv gets the unsupported-format    *)
(* result when the download succeeded and the error string when it failed.  *)
C14_NeverRaises ==
    file_result.kind # "pending" =>
        /\ file_result.kind \in {"pdf", "csv", "unsupported", "error"}
        /\ file_result.kind = "error" <=>
              \/ file.get = "raise"
              \/ IsPdfUrl /\ (file.content.kind # "pdf" \/ PageFails)
              \/ ~IsPdfUrl /\ IsCsvUrl /\ file.content.kind # "csv"
        /\ file_result.kind = "unsupported" <=>
              (file.get = "ok" /\ ~IsPdfUrl /\ ~IsCsvUrl)

C14_Witness ==
    /\ file_result.kind = "error"
    /\ file.get = "ok"
    /\ IsPdfUrl /\ file.content.kind = "pdf" /\ PageFails

\* the reasoning passes of the run that returned a message
AiMessages == Cardinality({i \in 1..Len(messages) : messages[i].type = "ai"})

\* the supersteps of the tool node: the tool-calling messages that have their
\* results behind them
ToolSteps ==
    Cardinality({i \in 1..(Len(messages) - 1) :
                    /\ messages[i].type = "ai"
                    /\ messages[i].tool_calls.calls # <<>>
                    /\ messages[i + 1].type = "tool"})

RaisedByCeiling == status = "FAILED" /\ error = "GraphRecursionError"

C16_OneNewMessage ==
    [][(status = "RUNNING" /\ node = "agent" /\ step' = step + 1 /\ status' # "FAILED") =>
            /\ Len(messages') = Len(messages) + 1
            /\ SubSeq(messages', 1, Len(messages)) = messages
            /\ Last(messages').type = "ai"
            /\ \A i, j \in 1..Len(messages') :
                    messages'[i].id = messages'[j].id => i = j]_vars

C16_Witness ==
    /\ Len(messages) = 4
    /\ [i \in 1..4 |-> messages[i].type] = <<"human", "ai", "ai", "ai">>
    /\ status = "RUNNING" /\ node = "agent"

(* C17: one node is scheduled at a time, and whenever the reasoning step is *)
(* scheduled every tool call of the history has its result: the results of  *)
(* all calls of the latest tool-calling message are in the history before   *)
(* the next reasoning pass starts.                                          *)
C17_Sequential ==
    /\ node \in {"agent", "tools", "__end__"}
    /\ (status = "RUNNING" /\ node = "agent") =>
            /\ \A id \in CallIds(messages) : Answers(messages, id) # {}
            /\ Last(messages).type \in {"human", "tool"} \/ Pending = <<>>
    /\ (status = "RUNNING" /\ node = "tools") =>
            /\ Last(messages).type = "ai" /\ Pending # <<>>

C17_Witness ==
    /\ status = "RUNNING" /\ node = "agent" /\ step < RecursionLimit
    /\ Len(messages) = 4
    /\ Len(messages[2].tool_calls.calls) = 2
    /\ messages[3].type = "tool" /\ messages[4].type = "tool"

Tasks == 1..Len(QUIZ_LOGS)

(* C18 as stated: the status of a task is queued, completed or failed, it   *)
(* changes at most once, from queued, and completed_at is unset exactly     *)
(* while the status is queued.                                              *)
C18_Original ==
    /\ [](\A i \in Tasks :
            /\ QUIZ_LOGS[i].status \in {"queued", "completed", "failed"}
            /\ QUIZ_LOGS[i].completed_at = NoTime <=> QUIZ_LOGS[i].status = "queued")
    /\ [][\A i \in Tasks :
            QUIZ_LOGS'[i].status # QUIZ_LOGS[i].status => QUIZ_LOGS[i].status = "queued"]_vars

(* C19: the log entries carry the ids 1..n in log order and the counter is  *)
(* n; an accepted request appends exactly one entry, with the next id and   *)
(* the url of the request, and is answered with the id of that entry,       *)
(* whatever the background tasks of earlier requests are doing meanwhile.   *)
C19_IdsConsecutive ==
    /\ [](TASK_ID = Len(QUIZ_LOGS) /\ \A i \in Tasks : QUIZ_LOGS[i].id = i)
    /\ [](response.status_code = 200 =>
            /\ response.task_id = Len(QUIZ_LOGS)
            /\ QUIZ_LOGS[response.task_id].url = request.url)
    /\ [][Len(QUIZ_LOGS') # Len(QUIZ_LOGS) =>
            /\ Len(QUIZ_LOGS') = Len(QUIZ_LOGS) + 1
            /\ response'.status_code = 200
            /\ response'.task_id = QUIZ_LOGS'[Len(QUIZ_LOGS')].id
            /\ response'.task_id = TASK_ID + 1]_vars
    /\ [][response'.status_code = 200 /\ (response' # response \/ request' # request) =>
            Len(QUIZ_LOGS') = Len(QUIZ_LOGS) + 1]_vars

C19_Witness ==
    /\ Len(QUIZ_LOGS) = 2
    /\ response.status_code = 200 /\ response.task_id = 2
    /\ background_tasks[1].pc = "completed_at"
    /\ background_tasks[2].pc = "run_agent"

\* the log entry of task t
Entry(t) == QUIZ_LOGS[background_tasks[t].entry]

\* task t has been recorded as failed with the text of the exception e
RecordedFailed(t, e) ==
    /\ background_tasks[t].pc = "done"
    /\ Entry(t).status = "failed"
    /\ Entry(t).completed_at # NoTime
    /\ Entry(t).result = e

(* C11: a run that app.invoke ended with an exception (the model call       *)
(* failed, or the ceiling was reached) takes no further step and is not     *)
(* started again; its task is never recorded as completed, and it ends      *)
(* recorded as failed, with completed_at set and the exception text as      *)
(* result.                                                                  *)
C11_FailureRecorded ==
    /\ [](\A t \in 1..Len(runs) :
            (runs[t].status = "FAILED" \/ background_tasks[t].raised # None) =>
                Entry(t).status # "completed")
    /\ [](\A t \in 1..Len(runs) :
            (background_tasks[t].pc = "done" /\ background_tasks[t].raised # None) =>
                /\ background_tasks[t].raised \in {"ProviderError", "GraphRecursionError"}
                /\ RecordedFailed(t, background_tasks[t].raised))
    /\ [][\A t \in 1..Len(runs) :
            runs[t].status = "FAILED" =>
                \/ runs'[t] = runs[t]
                \/ /\ runs'[t] = Returned
                   /\ background_tasks'[t].raised = runs[t].error
                   /\ QUIZ_LOGS'[background_tasks[t].entry].status = "failed"]_vars
    /\ [][\A t \in 1..Len(runs) : runs[t] = Returned => runs'[t] = Returned]_vars
    /\ <>(\A t \in 1..Len(runs) : background_tasks[t].pc = "done")

C11_Witness ==
    /\ Len(runs) = 2
    /\ RecordedFailed(1, "GraphRecursionError")
    /\ RecordedFailed(2, "ProviderError")

(* C12 as stated: the result of a completed task is the final output of     *)
(* its run, it is not None.                                                 *)
C12_Original ==
    \A t \in 1..Len(runs) :
        (background_tasks[t].pc = "done" /\ Entry(t).status = "completed") =>
            Entry(t).result # None

(* C20: every run has its own history, which starts with the url of its     *)
(* own task, and a step of one run leaves the other runs and the log        *)
(* entries of the other tasks as they were; a task writes the status,       *)
(* completed_at and result of its own entry only, the id, url and           *)
(* submitted_at of every entry stay, and the log keeps its entries.         *)
C20_Isolated ==
    /\ [](\A t \in 1..Len(runs) :
            runs[t] # Returned =>
                /\ runs[t].messages[1] =
                        HumanMessage(1, StrContent(<<background_tasks[t].url>>))
                /\ \A k \in 2..Len(runs[t].messages) : runs[t].messages[k].type # "human")
    /\ [][\A t, u \in 1..Len(runs) :
            (runs'[t] # runs[t] /\ u # t) =>
                /\ runs'[u] = runs[u]
                /\ background_tasks'[u] = background_tasks[u]
                /\ QUIZ_LOGS'[background_tasks[u].entry] = Entry(u)]_vars
    /\ [][\A t \in 1..Len(runs) :
            (runs'[t] # runs[t] /\ runs'[t] # Returned) => QUIZ_LOGS' = QUIZ_LOGS]_vars
    /\ [][/\ Len(QUIZ_LOGS') = Len(QUIZ_LOGS)
          /\ \A i \in Tasks :
                /\ QUIZ_LOGS'[i].id = QUIZ_LOGS[i].id
                /\ QUIZ_LOGS'[i].url = QUIZ_LOGS[i].url
                /\ QUIZ_LOGS'[i].submitted_at = QUIZ_LOGS[i].submitted_at
                /\ QUIZ_LOGS'[i] # QUIZ_LOGS[i] =>
                        /\ \E t \in 1..Len(runs) :
                                /\ background_tasks[t].entry = i
                                /\ background_tasks'[t].pc # background_tasks[t].pc
                        /\ \A j \in Tasks : j # i => QUIZ_LOGS'[j] = QUIZ_LOGS[j]]_vars

C20_Witness ==
    /\ Len(runs) = 2
    /\ background_tasks[1].url = background_tasks[2].url
    /\ runs[1] = Returned /\ background_tasks[1].pc = "done"
    /\ Entry(1).status = "completed"
    /\ runs[2].status = "RUNNING" /\ Len(runs[2].messages) = 3
    /\ Entry(2).status = "queued" /\ Entry(2).completed_at = NoTime

====
